---------------------------- MODULE Spec2Model ----------------------------
(***************************************************************************)
(* Utterance playback controller (src/src/hooks/useSpeechSynthesis.ts),    *)
(* response formatter (src/unnamed/part_000) and application component     *)
(* (src/src/App.tsx) of the chat client.                                   *)
(*                                                                         *)
(* The hook's refs and state are the variables; every exported operation,  *)
(* timer callback and device callback is one action.  The browser's speech *)
(* device (window.speechSynthesis) and its timers (setTimeout) are the     *)
(* environment: the device keeps the utterances handed to it in a queue,   *)
(* and the timers fire in the order of their deadlines.                    *)
(*                                                                         *)
(* The formatter is a pure function of the body the webhook answers with:  *)
(* its regular expressions, JSON.parse and JSON.stringify are operators,   *)
(* and ReplySpec applies them to a bounded set of bodies.                  *)
(*                                                                         *)
(* The application component's state (conversations, current id,           *)
(* isProcessing, error), the browser's localStorage and the calls of       *)
(* handleSendMessage waiting for the webhook are the variables of AppSpec; *)
(* every handler is one action, its render and effects included.           *)
(*                                                                         *)
(* A text is a sequence of one-character strings.                          *)
(***************************************************************************)
EXTENDS Naturals, Sequences, FiniteSets

\* ------------------------------------------------------------------------
\* Bounds of the model

\* speak() calls that pass the guards of speak (sessions are numbered 1..)
MaxSessions == 2

\* ------------------------------------------------------------------------
\* Program constants (delays in milliseconds)

SettleDelay == 100
ChunkPause == 50
GraceDelay == 50
VoicesDelay == 100

\* ------------------------------------------------------------------------
\* Text helpers

\* the characters the texts are made of that \s and trim() take for white
\* space: the space, the line feed and the tab
IsSpace(c) == c \in {" ", "\n", "\t"}

IsTerminal(c) == c \in {".", "!", "?"}

\* String.prototype.trim on a sequence of characters
RECURSIVE TrimLeft(_)
TrimLeft(s) ==
    IF s = <<>> THEN <<>>
    ELSE IF IsSpace(Head(s)) THEN TrimLeft(Tail(s)) ELSE s

RECURSIVE TrimRight(_)
TrimRight(s) ==
    IF s = <<>> THEN <<>>
    ELSE IF IsSpace(s[Len(s)]) THEN TrimRight(SubSeq(s, 1, Len(s) - 1)) ELSE s

Trim(s) == TrimRight(TrimLeft(s))

\* length of the longest prefix of s made of the character c
RECURSIVE RunLen(_, _)
RunLen(s, c) ==
    IF s = <<>> \/ Head(s) # c THEN 0 ELSE 1 + RunLen(Tail(s), c)

Drop(s, n) == SubSeq(s, n + 1, Len(s))

\* length of the longest prefix of s made of white space
RECURSIVE SpaceRun(_)
SpaceRun(s) ==
    IF s = <<>> \/ ~IsSpace(Head(s)) THEN 0 ELSE 1 + SpaceRun(Tail(s))

\* text.replace(/#{1,}/g, ' ')
RECURSIVE ReplaceHashes(_)
ReplaceHashes(s) ==
    IF s = <<>> THEN <<>>
    ELSE IF Head(s) = "#" THEN <<" ">> \o ReplaceHashes(Drop(s, RunLen(s, "#")))
    ELSE <<Head(s)>> \o ReplaceHashes(Tail(s))

\* text.replace(/---+/g, ' ')
RECURSIVE ReplaceRules(_)
ReplaceRules(s) ==
    IF s = <<>> THEN <<>>
    ELSE IF RunLen(s, "-") >= 3 THEN <<" ">> \o ReplaceRules(Drop(s, RunLen(s, "-")))
    ELSE <<Head(s)>> \o ReplaceRules(Tail(s))

\* text.replace(/ccc/g, by) for a single character c
RECURSIVE ReplaceTriples(_, _, _)
ReplaceTriples(s, c, by) ==
    IF s = <<>> THEN <<>>
    ELSE IF RunLen(s, c) >= 3 THEN <<by>> \o ReplaceTriples(Drop(s, 3), c, by)
    ELSE <<Head(s)>> \o ReplaceTriples(Tail(s), c, by)

\* index of the first ">" of s, 0 when there is none
RECURSIVE FirstClose(_, _)
FirstClose(s, i) ==
    IF i > Len(s) THEN 0
    ELSE IF s[i] = ">" THEN i ELSE FirstClose(s, i + 1)

\* text.replace(/<[^>]+>/g, ' ')
RECURSIVE ReplaceTags(_)
ReplaceTags(s) ==
    IF s = <<>> THEN <<>>
    ELSE IF Head(s) = "<" /\ FirstClose(s, 2) >= 3
         THEN <<" ">> \o ReplaceTags(Drop(s, FirstClose(s, 2)))
    ELSE <<Head(s)>> \o ReplaceTags(Tail(s))

\* text.replace(/[*_~BACKQUOTE]/g, ' '), the backquote written out
ReplaceEmphasis(s) ==
    [i \in 1..Len(s) |-> IF s[i] \in {"*", "_", "~"} THEN " " ELSE s[i]]

\* text.replace(/\s+/g, ' ')
RECURSIVE CollapseSpaces(_)
CollapseSpaces(s) ==
    IF s = <<>> THEN <<>>
    ELSE IF IsSpace(Head(s)) THEN <<" ">> \o CollapseSpaces(Drop(s, SpaceRun(s)))
    ELSE <<Head(s)>> \o CollapseSpaces(Tail(s))

processTextForSpeech(text) ==
    LET t1 == ReplaceHashes(text)
        t2 == ReplaceRules(t1)
        t3 == ReplaceTriples(t2, "*", " ")
        t4 == ReplaceTriples(t3, ".", ".")
        t5 == ReplaceTags(t4)
        t6 == ReplaceEmphasis(t5)
    IN  Trim(CollapseSpaces(t6))

\* length of the longest prefix of s without terminal punctuation
RECURSIVE BodyLen(_)
BodyLen(s) ==
    IF s = <<>> \/ IsTerminal(Head(s)) THEN 0 ELSE 1 + BodyLen(Tail(s))

\* length of the match of /[^.!?]+[.!?]?\s*/ at the start of s (0: no match)
MatchLen(s) ==
    LET b == BodyLen(s)
        p == IF b < Len(s) /\ IsTerminal(s[b + 1]) THEN 1 ELSE 0
    IN  IF b = 0 THEN 0 ELSE b + p + SpaceRun(Drop(s, b + p))

\* text.match(/[^.!?]+[.!?]?\s*/g): the successive matches, left to right
RECURSIVE Matches(_)
Matches(s) ==
    IF s = <<>> THEN <<>>
    ELSE IF MatchLen(s) = 0 THEN Matches(Tail(s))
    ELSE <<SubSeq(s, 1, MatchLen(s))>> \o Matches(Drop(s, MatchLen(s)))

\* mutant of splitIntoSentences: no chunk when the expression matches nothing
splitIntoSentencesNoFallback(text) ==
    LET sentences == Matches(text)
        trimmed == [i \in 1..Len(sentences) |-> Trim(sentences[i])]
    IN  SelectSeq(trimmed, LAMBDA s : Len(s) > 0)

\* text.match(/[^.!?]+[.!?]?\s*/g), each match trimmed, the empty ones dropped;
\* the text itself when nothing matches
splitIntoSentences(text) ==
    LET sentences == Matches(text)
        trimmed == [i \in 1..Len(sentences) |-> Trim(sentences[i])]
    IN  IF sentences = <<>> THEN <<text>>
        ELSE SelectSeq(trimmed, LAMBDA s : Len(s) > 0)

\* ------------------------------------------------------------------------
\* Response formatter: string helpers (src/unnamed/part_000)
\*
\* A character is a one-character string; the bullet U+2022 that the
\* formatter writes before a list item is written "(bullet)".

StartsWith(s, p) == Len(s) >= Len(p) /\ SubSeq(s, 1, Len(p)) = p

\* text.includes(p)
Includes(s, p) ==
    \E i \in 1..Len(s) : i + Len(p) - 1 <= Len(s) /\ SubSeq(s, i, i + Len(p) - 1) = p

Uppercase ==
    << "A", "B", "C", "D", "E", "F", "G", "H", "I", "J", "K", "L", "M",
       "N", "O", "P", "Q", "R", "S", "T", "U", "V", "W", "X", "Y", "Z" >>

Lowercase ==
    << "a", "b", "c", "d", "e", "f", "g", "h", "i", "j", "k", "l", "m",
       "n", "o", "p", "q", "r", "s", "t", "u", "v", "w", "x", "y", "z" >>

\* the letter c in lower case (the i flag of a regular expression)
Lower(c) ==
    IF \E i \in 1..26 : Uppercase[i] = c
    THEN Lowercase[CHOOSE i \in 1..26 : Uppercase[i] = c]
    ELSE c

\* s starts with the tag p, whatever the case of its letters
StartsWithTag(s, p) ==
    /\ Len(s) >= Len(p)
    /\ \A i \in 1..Len(p) : Lower(s[i]) = p[i]

\* index of the first occurrence of pat in s at or after i that no line
\* terminator precedes (the dot of a regular expression matches none), 0 when
\* there is none
RECURSIVE FindOnLine(_, _, _)
FindOnLine(s, pat, i) ==
    IF i + Len(pat) - 1 > Len(s) THEN 0
    ELSE IF SubSeq(s, i, i + Len(pat) - 1) = pat THEN i
    ELSE IF s[i] = "\n" THEN 0
    ELSE FindOnLine(s, pat, i + 1)

\* the match of <open>(.*?)<close> at the start of s, replaced by $1
Delimited(s, open, close) ==
    LET j == IF StartsWith(s, open) THEN FindOnLine(s, close, Len(open) + 1) ELSE 0
    IN  IF j = 0 THEN [len |-> 0, by |-> <<>>]
        ELSE [len |-> j + Len(close) - 1, by |-> SubSeq(s, Len(open) + 1, j - 1)]

\* the match of /\[(.*?)\]\(.*?\)/ at the start of s, replaced by $1
MarkdownLink(s) ==
    LET j == IF StartsWith(s, <<"[">>) THEN FindOnLine(s, <<"]", "(">>, 2) ELSE 0
        k == IF j = 0 THEN 0 ELSE FindOnLine(s, <<")">>, j + 2)
    IN  IF k = 0 THEN [len |-> 0, by |-> <<>>]
        ELSE [len |-> k, by |-> SubSeq(s, 2, j - 1)]

\* the match of a literal at the start of s
Literal(s, pat, by) ==
    IF StartsWith(s, pat) THEN [len |-> Len(pat), by |-> by] ELSE [len |-> 0, by |-> <<>>]

\* the match of one of the tags at the start of s, letters in any case
Tag(s, tags, by) ==
    IF \E t \in tags : StartsWithTag(s, t)
    THEN [len |-> Len(CHOOSE t \in tags : StartsWithTag(s, t)), by |-> by]
    ELSE [len |-> 0, by |-> <<>>]

\* the match of /<br\s*\/?>/i at the start of s
BreakTag(s) ==
    LET n == IF StartsWithTag(s, <<"<", "b", "r">>) THEN 3 + SpaceRun(Drop(s, 3)) ELSE 0
        m == IF n > 0 /\ n < Len(s) /\ s[n + 1] = "/" THEN n + 1 ELSE n
    IN  IF n > 0 /\ m < Len(s) /\ s[m + 1] = ">"
        THEN [len |-> m + 1, by |-> <<"\n">>]
        ELSE [len |-> 0, by |-> <<>>]

\* the match of /<h[1-6]>/i (slash empty) or /<\/h[1-6]>/i at the start of s
HeadingTag(s, slash, by) ==
    LET n == Len(slash)
    IN  IF /\ Len(s) >= n + 4
           /\ s[1] = "<"
           /\ SubSeq(s, 2, n + 1) = slash
           /\ Lower(s[n + 2]) = "h"
           /\ s[n + 3] \in {"1", "2", "3", "4", "5", "6"}
           /\ s[n + 4] = ">"
        THEN [len |-> n + 4, by |-> by]
        ELSE [len |-> 0, by |-> <<>>]

\* the match of /<[^>]*>/ at the start of s
AnyTag(s) ==
    IF s # <<>> /\ Head(s) = "<" /\ FirstClose(s, 2) > 0
    THEN [len |-> FirstClose(s, 2), by |-> <<>>]
    ELSE [len |-> 0, by |-> <<>>]

\* the match of /\n{3,}/ at the start of s
BlankLines(s) ==
    IF RunLen(s, "\n") >= 3
    THEN [len |-> RunLen(s, "\n"), by |-> <<"\n", "\n">>]
    ELSE [len |-> 0, by |-> <<>>]

\* ------------------------------------------------------------------------
\* Response formatter: cleanHtmlAndFormatText

ResponseLabel == << "R", "e", "s", "p", "o", "n", "s", "e", ":" >>

OutputKey == << "\"", "o", "u", "t", "p", "u", "t", "\"" >>

\* the regular expressions of cleanHtmlAndFormatText, in the order it applies
\* them with replace
CleanRules ==
    << "\\n", "\\\"",
       "<br>", "<p>", "</p>", "<li>", "</li>", "<ul>", "</ul>", "<ol>", "</ol>",
       "<h>", "</h>", "<strong>|<b>", "</strong>|</b>", "<em>|<i>", "</em>|</i>",
       "<[^>]*>",
       "**", "*", "__", "_", "[]()", "\\n{3,}" >>

\* the match of a rule at the start of s: its length (0: no match) and what
\* replaces it
Match(rule, s) ==
    CASE rule = "\\n" -> Literal(s, <<"\\", "n">>, <<"\n">>)
      [] rule = "\\\"" -> Literal(s, <<"\\", "\"">>, <<"\"">>)
      [] rule = "<br>" -> BreakTag(s)
      [] rule = "<p>" -> Tag(s, {<<"<", "p", ">">>}, <<"\n">>)
      [] rule = "</p>" -> Tag(s, {<<"<", "/", "p", ">">>}, <<"\n">>)
      [] rule = "<li>" -> Tag(s, {<<"<", "l", "i", ">">>}, <<"\n", "(bullet)", " ">>)
      [] rule = "</li>" -> Tag(s, {<<"<", "/", "l", "i", ">">>}, <<>>)
      [] rule = "<ul>" -> Tag(s, {<<"<", "u", "l", ">">>}, <<"\n">>)
      [] rule = "</ul>" -> Tag(s, {<<"<", "/", "u", "l", ">">>}, <<"\n">>)
      [] rule = "<ol>" -> Tag(s, {<<"<", "o", "l", ">">>}, <<"\n">>)
      [] rule = "</ol>" -> Tag(s, {<<"<", "/", "o", "l", ">">>}, <<"\n">>)
      [] rule = "<h>" -> HeadingTag(s, <<>>, <<"\n", "\n">>)
      [] rule = "</h>" -> HeadingTag(s, <<"/">>, <<"\n">>)
      [] rule = "<strong>|<b>" ->
            Tag(s, {<<"<", "s", "t", "r", "o", "n", "g", ">">>, <<"<", "b", ">">>}, <<>>)
      [] rule = "</strong>|</b>" ->
            Tag(s, {<<"<", "/", "s", "t", "r", "o", "n", "g", ">">>,
                    <<"<", "/", "b", ">">>}, <<>>)
      [] rule = "<em>|<i>" -> Tag(s, {<<"<", "e", "m", ">">>, <<"<", "i", ">">>}, <<>>)
      [] rule = "</em>|</i>" ->
            Tag(s, {<<"<", "/", "e", "m", ">">>, <<"<", "/", "i", ">">>}, <<>>)
      [] rule = "<[^>]*>" -> AnyTag(s)
      [] rule = "**" -> Delimited(s, <<"*", "*">>, <<"*", "*">>)
      [] rule = "*" -> Delimited(s, <<"*">>, <<"*">>)
      [] rule = "__" -> Delimited(s, <<"_", "_">>, <<"_", "_">>)
      [] rule = "_" -> Delimited(s, <<"_">>, <<"_">>)
      [] rule = "[]()" -> MarkdownLink(s)
      [] rule = "\\n{3,}" -> BlankLines(s)

\* the places of s where a match of the rule starts
MatchStarts(s, rule) ==
    {j \in 1..Len(s) : Match(rule, Drop(s, j - 1)).len > 0}

Min(S) == CHOOSE x \in S : \A y \in S : x <= y

\* text.replace(rule, by) with the g flag: the matches from left to right,
\* each search starting after the match before
RECURSIVE ReplaceAll(_, _)
ReplaceAll(s, rule) ==
    IF MatchStarts(s, rule) = {} THEN s
    ELSE LET j == Min(MatchStarts(s, rule))
             m == Match(rule, Drop(s, j - 1))
         IN  SubSeq(s, 1, j - 1) \o m.by \o ReplaceAll(Drop(s, j - 1 + m.len), rule)

\* the rules from the n-th on, applied one after the other
RECURSIVE ApplyRules(_, _)
ApplyRules(s, n) ==
    IF n > Len(CleanRules) THEN s
    ELSE ApplyRules(ReplaceAll(s, CleanRules[n]), n + 1)

\* index of the first " of s at or after i, 0 when there is none
RECURSIVE FirstQuote(_, _)
FirstQuote(s, i) ==
    IF i > Len(s) THEN 0
    ELSE IF s[i] = "\"" THEN i ELSE FirstQuote(s, i + 1)

\* the group of the match of /"output"\s*:\s*"([^"]*)"/ at the start of s
OutputAt(s) ==
    LET a == Len(OutputKey) + SpaceRun(Drop(s, Len(OutputKey)))
        b == a + 1 + SpaceRun(Drop(s, a + 1))
        q == FirstQuote(s, b + 2)
    IN  IF /\ StartsWith(s, OutputKey)
           /\ a < Len(s) /\ s[a + 1] = ":"
           /\ b < Len(s) /\ s[b + 1] = "\""
           /\ q > 0
        THEN [found |-> TRUE, group |-> SubSeq(s, b + 2, q - 1)]
        ELSE [found |-> FALSE, group |-> <<>>]

\* text.match(/"output"\s*:\s*"([^"]*)"/): the first match
RECURSIVE OutputMatch(_)
OutputMatch(s) ==
    IF s = <<>> THEN [found |-> FALSE, group |-> <<>>]
    ELSE IF OutputAt(s).found THEN OutputAt(s)
    ELSE OutputMatch(Tail(s))

cleanHtmlAndFormatText(text) ==
    LET t0 == IF StartsWith(text, ResponseLabel)
              THEN Trim(Drop(text, Len(ResponseLabel)))
              ELSE text
        match == OutputMatch(t0)
        t1 == IF /\ StartsWith(Trim(t0), <<"{">>)
                 /\ Includes(t0, OutputKey)
                 /\ match.found
                 /\ match.group # <<>>
              THEN ReplaceAll(ReplaceAll(match.group, "\\n"), "\\\"")
              ELSE t0
    IN  Trim(ApplyRules(t1, 1))

\* ------------------------------------------------------------------------
\* Response formatter: JSON values, JSON.parse and JSON.stringify
\*
\* A value is a record with its type in t: a string has its characters in s,
\* a number its value in n, a boolean its value in b, an array its elements
\* in items, an object its properties in members, a sequence of key and
\* value in the order the keys were first set.  Numbers are written with
\* digits only and strings with the escapes \" \\ \/ \n \t.

JString(s) == [t |-> "string", s |-> s]

JNumber(n) == [t |-> "number", n |-> n]

JBool(b) == [t |-> "boolean", b |-> b]

JNull == [t |-> "null"]

JArray(items) == [t |-> "array", items |-> items]

JObject(members) == [t |-> "object", members |-> members]

Undefined == [t |-> "undefined"]

Digits == << "0", "1", "2", "3", "4", "5", "6", "7", "8", "9" >>

IsDigit(c) == \E d \in 1..10 : Digits[d] = c

DigitValue(c) == (CHOOSE d \in 1..10 : Digits[d] = c) - 1

\* a failed parse: the SyntaxError JSON.parse throws
Failed == [ok |-> FALSE, v |-> Undefined, i |-> 0]

Parsed(v, i) == [ok |-> TRUE, v |-> v, i |-> i]

\* the index of the first character of s at or after i that is not white space
SkipSpace(s, i) == i + SpaceRun(Drop(s, i - 1))

\* data[key] = v on the properties of an object
SetMember(members, key, v) ==
    IF \E j \in 1..Len(members) : members[j].k = key
    THEN [j \in 1..Len(members) |->
             IF members[j].k = key THEN [k |-> key, v |-> v] ELSE members[j]]
    ELSE Append(members, [k |-> key, v |-> v])

\* the characters of a string from i on, after its opening quote
RECURSIVE ParseChars(_, _, _)
ParseChars(s, i, acc) ==
    IF i > Len(s) THEN Failed
    ELSE IF s[i] = "\"" THEN Parsed(JString(acc), i + 1)
    ELSE IF s[i] \in {"\n", "\t"} THEN Failed
    ELSE IF s[i] # "\\" THEN ParseChars(s, i + 1, Append(acc, s[i]))
    ELSE IF i + 1 > Len(s) THEN Failed
    ELSE IF s[i + 1] \in {"\"", "\\", "/"} THEN ParseChars(s, i + 2, Append(acc, s[i + 1]))
    ELSE IF s[i + 1] = "n" THEN ParseChars(s, i + 2, Append(acc, "\n"))
    ELSE IF s[i + 1] = "t" THEN ParseChars(s, i + 2, Append(acc, "\t"))
    ELSE Failed

\* the digits of a number from i on
RECURSIVE ParseDigits(_, _, _)
ParseDigits(s, i, n) ==
    IF i <= Len(s) /\ IsDigit(s[i])
    THEN ParseDigits(s, i + 1, 10 * n + DigitValue(s[i]))
    ELSE Parsed(JNumber(n), i)

ParseWord(s, i, word, v) ==
    IF i + Len(word) - 1 <= Len(s) /\ SubSeq(s, i, i + Len(word) - 1) = word
    THEN Parsed(v, i + Len(word))
    ELSE Failed

RECURSIVE ParseValue(_, _)
RECURSIVE ParseMembers(_, _, _)
RECURSIVE ParseItems(_, _, _)

\* the properties of an object from i on, after "{" or ","
ParseMembers(s, i, members) ==
    LET k == SkipSpace(s, i)
        key == IF k <= Len(s) /\ s[k] = "\"" THEN ParseChars(s, k + 1, <<>>) ELSE Failed
        c == IF key.ok THEN SkipSpace(s, key.i) ELSE 0
        val == IF key.ok /\ c <= Len(s) /\ s[c] = ":" THEN ParseValue(s, c + 1) ELSE Failed
    IN  IF ~val.ok \/ val.i > Len(s) THEN Failed
        ELSE IF s[val.i] = ","
        THEN ParseMembers(s, val.i + 1, SetMember(members, key.v.s, val.v))
        ELSE IF s[val.i] = "}"
        THEN Parsed(JObject(SetMember(members, key.v.s, val.v)), val.i + 1)
        ELSE Failed

\* the elements of an array from i on, after "[" or ","
ParseItems(s, i, items) ==
    LET val == ParseValue(s, i)
    IN  IF ~val.ok \/ val.i > Len(s) THEN Failed
        ELSE IF s[val.i] = "," THEN ParseItems(s, val.i + 1, Append(items, val.v))
        ELSE IF s[val.i] = "]" THEN Parsed(JArray(Append(items, val.v)), val.i + 1)
        ELSE Failed

\* a value from i on, with the white space around it
ParseValue(s, i) ==
    LET k == SkipSpace(s, i)
        c == IF k <= Len(s) THEN s[k] ELSE ""
        k1 == SkipSpace(s, k + 1)
        val == IF c = "{"
               THEN IF k1 <= Len(s) /\ s[k1] = "}"
                    THEN Parsed(JObject(<<>>), k1 + 1)
                    ELSE ParseMembers(s, k + 1, <<>>)
               ELSE IF c = "["
               THEN IF k1 <= Len(s) /\ s[k1] = "]"
                    THEN Parsed(JArray(<<>>), k1 + 1)
                    ELSE ParseItems(s, k + 1, <<>>)
               ELSE IF c = "\"" THEN ParseChars(s, k + 1, <<>>)
               ELSE IF c = "0" THEN Parsed(JNumber(0), k + 1)
               ELSE IF IsDigit(c) THEN ParseDigits(s, k, 0)
               ELSE IF c = "n" THEN ParseWord(s, k, <<"n", "u", "l", "l">>, JNull)
               ELSE IF c = "t" THEN ParseWord(s, k, <<"t", "r", "u", "e">>, JBool(TRUE))
               ELSE IF c = "f"
               THEN ParseWord(s, k, <<"f", "a", "l", "s", "e">>, JBool(FALSE))
               ELSE Failed
    IN  IF val.ok THEN Parsed(val.v, SkipSpace(s, val.i)) ELSE Failed

\* JSON.parse(text): ok is false when it throws
JsonParse(text) ==
    LET val == ParseValue(text, 1)
    IN  IF val.ok /\ val.i = Len(text) + 1 THEN val ELSE Failed

\* the characters of a number
RECURSIVE NumberText(_)
NumberText(n) ==
    IF n < 10 THEN <<Digits[n + 1]>>
    ELSE NumberText(n \div 10) \o <<Digits[(n % 10) + 1]>>

\* the characters of a string between the quotes JSON.stringify puts around it
RECURSIVE Escaped(_)
Escaped(s) ==
    IF s = <<>> THEN <<>>
    ELSE (CASE Head(s) = "\"" -> <<"\\", "\"">>
            [] Head(s) = "\\" -> <<"\\", "\\">>
            [] Head(s) = "\n" -> <<"\\", "n">>
            [] Head(s) = "\t" -> <<"\\", "t">>
            [] OTHER -> <<Head(s)>>) \o Escaped(Tail(s))

Quoted(s) == <<"\"">> \o Escaped(s) \o <<"\"">>

RECURSIVE JsonStringify(_)
RECURSIVE StringifyMembers(_, _)
RECURSIVE StringifyItems(_, _)

StringifyMembers(members, i) ==
    IF i > Len(members) THEN <<>>
    ELSE (IF i > 1 THEN <<",">> ELSE <<>>)
         \o Quoted(members[i].k) \o <<":">> \o JsonStringify(members[i].v)
         \o StringifyMembers(members, i + 1)

StringifyItems(items, i) ==
    IF i > Len(items) THEN <<>>
    ELSE (IF i > 1 THEN <<",">> ELSE <<>>)
         \o JsonStringify(items[i]) \o StringifyItems(items, i + 1)

\* JSON.stringify(data)
JsonStringify(v) ==
    CASE v.t = "string" -> Quoted(v.s)
      [] v.t = "number" -> NumberText(v.n)
      [] v.t = "boolean" ->
            IF v.b THEN <<"t", "r", "u", "e">> ELSE <<"f", "a", "l", "s", "e">>
      [] v.t = "null" -> <<"n", "u", "l", "l">>
      [] v.t = "array" -> <<"[">> \o StringifyItems(v.items, 1) \o <<"]">>
      [] v.t = "object" -> <<"{">> \o StringifyMembers(v.members, 1) \o <<"}">>

\* ------------------------------------------------------------------------
\* Response formatter: formatResponseText and sendMessageToWebhook

\* the names of the properties formatResponseText looks for
Key ==
    [
      output |-> << "o", "u", "t", "p", "u", "t" >>,
      response |-> << "r", "e", "s", "p", "o", "n", "s", "e" >>,
      message |-> << "m", "e", "s", "s", "a", "g", "e" >>,
      text |-> << "t", "e", "x", "t" >>,
      content |-> << "c", "o", "n", "t", "e", "n", "t" >>,
      result |-> << "r", "e", "s", "u", "l", "t" >>,
      answer |-> << "a", "n", "s", "w", "e", "r" >>,
      data |-> << "d", "a", "t", "a" >> ]

\* data[key]: undefined when data has no such property
Prop(data, key) ==
    IF data.t = "object" /\ \E j \in 1..Len(data.members) : data.members[j].k = key
    THEN data.members[CHOOSE j \in 1..Len(data.members) : data.members[j].k = key].v
    ELSE Undefined

\* typeof v === 'string'
IsString(v) == v.t = "string"

\* the truth value of v in a condition
Truthy(v) ==
    CASE v.t = "string" -> v.s # <<>>
      [] v.t = "number" -> v.n # 0
      [] v.t = "boolean" -> v.b
      [] v.t \in {"null", "undefined"} -> FALSE
      [] OTHER -> TRUE

\* the values of the properties of data in the order of for (key in data)
Values(data) ==
    IF data.t = "array" THEN data.items
    ELSE [j \in 1..Len(data.members) |-> data.members[j].v]

\* the long strings among the properties' values
LongStrings(data) ==
    SelectSeq(Values(data), LAMBDA v : IsString(v) /\ Len(v.s) > 20)

ResponsePrefix == ResponseLabel \o <<" ">>

\* what a call gives back: the text it returns, or threw when it throws
Returns(text) == [threw |-> FALSE, text |-> text]

Throws == [threw |-> TRUE, text |-> <<>>]

EmptyResponseMessage ==
    << "S", "o", "r", "r", "y", ",", " ", "I", " ", "r", "e", "c", "e",
    "i", "v", "e", "d", " ", "a", "n", " ", "e", "m", "p", "t", "y", " ",
    "r", "e", "s", "p", "o", "n", "s", "e", ".", " ", "P", "l", "e", "a",
    "s", "e", " ", "t", "r", "y", " ", "a", "g", "a", "i", "n", "." >>

\* what a branch of formatResponseText hands to cleanHtmlAndFormatText, and
\* whether it puts the label before the cleaned text
Hand(s) == [s |-> s, label |-> FALSE]

Labelled(s) == [s |-> s, label |-> TRUE]

\* mutant of Branch: data.response is looked at before data.output
BranchResponseFirst(data, text) ==
    LET inner == Prop(data, Key.data)
    IN  IF IsString(data) THEN Hand(data.s)
        ELSE IF Truthy(data) /\ IsString(Prop(data, Key.response))
        THEN Hand(Prop(data, Key.response).s)
        ELSE IF Truthy(data) /\ IsString(Prop(data, Key.output))
        THEN Hand(Prop(data, Key.output).s)
        ELSE IF Truthy(data) /\ IsString(Prop(data, Key.message))
        THEN Hand(Prop(data, Key.message).s)
        ELSE IF Truthy(data) /\ IsString(Prop(data, Key.text))
        THEN Hand(Prop(data, Key.text).s)
        ELSE IF Truthy(data) /\ IsString(Prop(data, Key.content))
        THEN Hand(Prop(data, Key.content).s)
        ELSE IF Truthy(data) /\ IsString(Prop(data, Key.result))
        THEN Hand(Prop(data, Key.result).s)
        ELSE IF Truthy(data) /\ IsString(Prop(data, Key.answer))
        THEN Hand(Prop(data, Key.answer).s)
        ELSE IF Truthy(data) /\ IsString(inner)
        THEN Hand(inner.s)
        ELSE IF Truthy(data) /\ Truthy(inner) /\ IsString(Prop(inner, Key.response))
        THEN Hand(Prop(inner, Key.response).s)
        ELSE IF Truthy(data) /\ Truthy(inner) /\ IsString(Prop(inner, Key.message))
        THEN Hand(Prop(inner, Key.message).s)
        ELSE IF Truthy(data) /\ Truthy(inner) /\ IsString(Prop(inner, Key.text))
        THEN Hand(Prop(inner, Key.text).s)
        ELSE IF data.t = "array" /\ Len(data.items) > 0 /\ IsString(data.items[1])
        THEN Hand(data.items[1].s)
        ELSE IF Truthy(data) /\ data.t \in {"object", "array", "null"}
        THEN IF LongStrings(data) # <<>>
             THEN Hand(LongStrings(data)[1].s)
             ELSE Labelled(JsonStringify(data))
        ELSE Hand(text)

\* the branches of formatResponseText on the parsed data, in their order
Branch(data, text) ==
    LET inner == Prop(data, Key.data)
    IN  IF IsString(data) THEN Hand(data.s)
        ELSE IF Truthy(data) /\ IsString(Prop(data, Key.output))
        THEN Hand(Prop(data, Key.output).s)
        ELSE IF Truthy(data) /\ IsString(Prop(data, Key.response))
        THEN Hand(Prop(data, Key.response).s)
        ELSE IF Truthy(data) /\ IsString(Prop(data, Key.message))
        THEN Hand(Prop(data, Key.message).s)
        ELSE IF Truthy(data) /\ IsString(Prop(data, Key.text))
        THEN Hand(Prop(data, Key.text).s)
        ELSE IF Truthy(data) /\ IsString(Prop(data, Key.content))
        THEN Hand(Prop(data, Key.content).s)
        ELSE IF Truthy(data) /\ IsString(Prop(data, Key.result))
        THEN Hand(Prop(data, Key.result).s)
        ELSE IF Truthy(data) /\ IsString(Prop(data, Key.answer))
        THEN Hand(Prop(data, Key.answer).s)
        ELSE IF Truthy(data) /\ IsString(inner)
        THEN Hand(inner.s)
        ELSE IF Truthy(data) /\ Truthy(inner) /\ IsString(Prop(inner, Key.response))
        THEN Hand(Prop(inner, Key.response).s)
        ELSE IF Truthy(data) /\ Truthy(inner) /\ IsString(Prop(inner, Key.message))
        THEN Hand(Prop(inner, Key.message).s)
        ELSE IF Truthy(data) /\ Truthy(inner) /\ IsString(Prop(inner, Key.text))
        THEN Hand(Prop(inner, Key.text).s)
        ELSE IF data.t = "array" /\ Len(data.items) > 0 /\ IsString(data.items[1])
        THEN Hand(data.items[1].s)
        ELSE IF Truthy(data) /\ data.t \in {"object", "array", "null"}
        THEN IF LongStrings(data) # <<>>
             THEN Hand(LongStrings(data)[1].s)
             ELSE Labelled(JsonStringify(data))
        ELSE Hand(text)

Extract(data, text) ==
    LET branch == Branch(data, text)
    IN  (IF branch.label THEN ResponsePrefix ELSE <<>>)
            \o cleanHtmlAndFormatText(branch.s)

\* mutant of formatResponseText: the error of JSON.parse is not caught
formatResponseTextNoCatch(text) ==
    IF StartsWith(Trim(text), <<"{">>) \/ StartsWith(Trim(text), <<"[">>)
    THEN IF JsonParse(text).ok
         THEN Returns(Extract(JsonParse(text).v, text))
         ELSE Throws
    ELSE Returns(cleanHtmlAndFormatText(text))

\* the text starts like JSON and JSON.parse takes it
Parses(text) ==
    /\ StartsWith(Trim(text), <<"{">>) \/ StartsWith(Trim(text), <<"[">>)
    /\ JsonParse(text).ok

formatResponseText(text) ==
    IF Parses(text)
    THEN Returns(Extract(JsonParse(text).v, text))
    ELSE Returns(cleanHtmlAndFormatText(text))

\* mutant of sendMessageToWebhook: response.ok is not looked at
sendMessageToWebhookIgnoresStatus(ok, textData) ==
    IF textData = <<>> \/ Trim(textData) = <<>> THEN Returns(EmptyResponseMessage)
    ELSE formatResponseText(textData)

\* mutant of sendMessageToWebhook: an empty body is formatted like any other
sendMessageToWebhookNoDefault(ok, textData) ==
    IF ~ok THEN Throws ELSE formatResponseText(textData)

\* sendMessageToWebhook once fetch has answered: ok is response.ok and
\* textData the body of the response
sendMessageToWebhook(ok, textData) ==
    IF ~ok THEN Throws
    ELSE IF textData = <<>> \/ Trim(textData) = <<>> THEN Returns(EmptyResponseMessage)
    ELSE formatResponseText(textData)

\* ------------------------------------------------------------------------
\* Inputs of the reply pipeline

\* fragments a plain body is made of
MaxFragments == 2

\* properties of an object in a JSON body
MaxMembers == 2

\* pieces of text, markup and JSON
Fragments ==
    { <<"a">>,
      <<"b">>,
      <<" ">>,
      <<"\n">>,
      <<"\t">>,
      <<".">>,
      <<"!">>,
      <<"?">>,
      <<"*">>,
      <<"*", "*">>,
      <<"_">>,
      <<"#">>,
      <<"-", "-", "-">>,
      <<"<", "b", ">">>,
      <<"<", "/", "b", ">">>,
      <<"<", "b", "r", ">">>,
      <<"<">>,
      <<">">>,
      <<"[">>,
      <<"]", "(", "u", ")">>,
      <<"[", "!", "[", "a", "]", "(", "i", ")">>,
      <<"\\", "n">>,
      <<"\\", "\"">>,
      <<"R", "e", "s", "p", "o", "n", "s", "e", ":">>,
      <<"{">>,
      <<"}">>,
      <<"\"", "o", "u", "t", "p", "u", "t", "\"", ":", "\"", "a", "\"">>,
      <<"1">>,
      <<"]">> }

\* the texts made of n fragments
RECURSIVE Concats(_)
Concats(n) ==
    IF n = 0 THEN {<<>>}
    ELSE {a \o f : a \in Concats(n - 1), f \in Fragments}

PlainTexts == UNION {Concats(n) : n \in 0..MaxFragments}

\* the names of the properties of a body: the ones formatResponseText looks
\* for and one it does not know
Names == {Key[f] : f \in DOMAIN Key} \cup {<<"k">>}

Member(k, v) == [k |-> k, v |-> v]

FlatValues == {JString(<<"A">>), JString(<<"B">>), JNumber(1)}

\* the sequences of n properties with different names
RECURSIVE MemberSeqs(_)
MemberSeqs(n) ==
    IF n = 0 THEN {<<>>}
    ELSE {Append(m, Member(k, v)) :
              m \in MemberSeqs(n - 1), k \in Names, v \in FlatValues}

DistinctNames(m) == \A i, j \in 1..Len(m) : m[i].k = m[j].k => i = j

FlatDocs ==
    {JObject(m) : m \in {x \in UNION {MemberSeqs(n) : n \in 0..MaxMembers} :
                            DistinctNames(x)}}

\* objects under the property data
InnerValues ==
    { JObject(<<Member(Key.response, JString(<<"C">>)), Member(Key.message, JString(<<"D">>))>>),
      JObject(<<Member(Key.message, JString(<<"D">>)), Member(Key.text, JString(<<"E">>))>>),
      JObject(<<Member(Key.text, JString(<<"E">>))>>),
      JObject(<<Member(Key.response, JNumber(1)), Member(Key.text, JString(<<"E">>))>>),
      JObject(<<Member(Key.output, JString(<<"C">>))>>),
      JNull }

NestedDocs ==
    {JObject(<<Member(Key.data, d)>>) : d \in InnerValues}
    \cup {JObject(<<Member(Key.data, d), Member(k, v)>>) :
              d \in InnerValues, k \in Names \ {Key.data}, v \in FlatValues}
    \cup {JObject(<<Member(k, v), Member(Key.data, d)>>) :
              d \in InnerValues, k \in Names \ {Key.data}, v \in FlatValues}

LongText ==
    <<"a", "b", "c", "d", "e", "f", "g", "h", "i", "j", "k", "l", "m", "n", "o", "p", "q", "r", "s", "t", "u">>

\* strings with something to clean, to escape or to measure
OddStrings ==
    { <<>>,
      <<" ">>,
      <<"a", "\"", "b">>,
      <<"x", "\n", "y">>,
      <<"<", "b", ">", "c", "<", "/", "b", ">">>,
      LongText,
      SubSeq(LongText, 1, 20) }

OddDocs ==
    {JObject(<<Member(k, JString(s))>>) : k \in Names, s \in OddStrings}
    \cup {JObject(<<Member(<<"k">>, JObject(<<Member(Key.output, JString(s))>>))>>) :
              s \in OddStrings}
    \cup { JArray(<<>>),
           JArray(<<JString(<<"A">>)>>),
           JArray(<<JNumber(1), JString(<<"A">>)>>),
           JArray(<<JNumber(1), JString(LongText)>>),
           JArray(<<JObject(<<Member(Key.output, JString(<<"A">>))>>)>>),
           JArray(<<JNull, JBool(TRUE), JBool(FALSE), JNumber(10)>>) }

Documents == FlatDocs \cup NestedDocs \cup OddDocs

\* the documents whose bodies are also sent damaged
SmallDocs ==
    {JObject(<<Member(k, v)>>) : k \in Names, v \in FlatValues} \cup OddDocs

\* a body that lost its last character
Truncated(t) == SubSeq(t, 1, Len(t) - 1)

\* a body with a comma before its last character
TrailingComma(t) == Truncated(t) \o <<",", t[Len(t)]>>

\* a body with white space around it
Padded(t) == <<" ">> \o t \o <<"\n">>

Body(kind, v, t) == [document |-> [kind |-> kind, v |-> v], textData |-> t]

\* the bodies the webhook answers with, each with what it was written from
Bodies ==
    {Body("text", Undefined, t) : t \in PlainTexts}
    \cup {Body("json", d, JsonStringify(d)) : d \in Documents}
    \cup {Body("json", d, Padded(JsonStringify(d))) : d \in SmallDocs}
    \cup {Body("truncated", d, Truncated(JsonStringify(d))) : d \in SmallDocs}
    \cup {Body("comma", d, TrailingComma(JsonStringify(d))) : d \in SmallDocs}

\* ------------------------------------------------------------------------
\* Inputs

\* the texts speak() is called with: empty, whitespace only, one sentence,
\* two sentences
Texts ==
    { <<>>,
      <<" ">>,
      <<"a">>,
      <<"a", ".", " ", "b", "!">> }

\* !text || text.trim().length === 0
IsBlank(text) == Len(Trim(text)) = 0

\* splitIntoSentences(processTextForSpeech(text)) of every input text
chunksOf == [text \in Texts |-> splitIntoSentences(processTextForSpeech(text))]

\* ------------------------------------------------------------------------
\* State

VARIABLES
    mounted,                    \* "new", "mounted", "unmounted": the effect's life
    isSupported,                \* useState(false)
    synthesisRef,               \* TRUE when synthesisRef.current is the device
    isInitializedRef,
    voicesLoadedRef,
    selectedVoiceRef,           \* TRUE when a voice is selected
    onvoiceschanged,            \* TRUE when processVoices listens on the device
    isSpeaking,                 \* useState(false)
    utteranceQueueRef,          \* sequence of utterances
    currentUtteranceIndexRef,   \* index into the queue, from 0
    isCancellingRef,
    device,                     \* the device's queue: utterances handed to it
    aborted,                    \* utterances removed by the device's cancel()
                                \* whose last event is still to be delivered
    timers,                     \* pending setTimeout callbacks, by deadline
    nSessions,                  \* speak() calls that started a session
    last,                       \* history: what the last step did
    hist,                       \* history: what happened to each session
    stage,                      \* how far a reply is on its way from the
                                \* webhook to the chunks; "idle": no reply
    textData,                   \* the body of the webhook's response
    document,                   \* history: what the body was written from
    response,                   \* what sendMessageToWebhook or
                                \* formatResponseText gave back
    again,                      \* what formatting response once more gives
    spokenText,                 \* the text processTextForSpeech is given
    processedText,              \* the result of processTextForSpeech
    speechChunks,               \* the result of splitIntoSentences
    state,                      \* useState of App: currentConversationId,
                                \* conversations, isProcessing, error
    localStorage,               \* what the two keys of App hold
    inFlight,                   \* the handleSendMessage calls that await the
                                \* webhook, each with what its closure holds
    generated,                  \* how many ids generateId has returned
    nSends,                     \* handleSendMessage calls so far
    appMounted,                 \* TRUE once the effects of App have run
    appLast                     \* history: what the last step of App did,
                                \* for which send, and the status of the
                                \* answer it got ("network": none came)

vars ==
    << mounted, isSupported, synthesisRef, isInitializedRef, voicesLoadedRef,
       selectedVoiceRef, onvoiceschanged, isSpeaking, utteranceQueueRef,
       currentUtteranceIndexRef, isCancellingRef, device, aborted, timers,
       nSessions, last, hist,
       stage, textData, document, response, again, spokenText, processedText,
       speechChunks,
       state, localStorage, inFlight, generated, nSends, appMounted, appLast >>

\* the variables of the playback controller
hookVars ==
    << mounted, isSupported, synthesisRef, isInitializedRef, voicesLoadedRef,
       selectedVoiceRef, onvoiceschanged, isSpeaking, utteranceQueueRef,
       currentUtteranceIndexRef, isCancellingRef, device, aborted, timers,
       nSessions, last, hist >>

\* the variables of a reply on its way
replyVars ==
    << stage, textData, document, response, again, spokenText, processedText,
       speechChunks >>

\* the variables of the application component
appVars ==
    << state, localStorage, inFlight, generated, nSends, appMounted, appLast >>

initVars ==
    << mounted, isSupported, synthesisRef, isInitializedRef, voicesLoadedRef,
       selectedVoiceRef, onvoiceschanged >>

\* new SpeechSynthesisUtterance(chunk), the idx-th of session sid; prefixes
\* counts how many times AUDIBLE_PREFIX was put in front of its text
Utterance(sid, idx, chunk) ==
    [sid |-> sid, idx |-> idx, text |-> chunk, prefixes |-> 0]

SameUtterance(u, v) == u.sid = v.sid /\ u.idx = v.idx

\* setTimeout(callback, delay): all delays are multiples of the shortest one,
\* ChunkPause, and a timer of n * ChunkPause is n timers of ChunkPause in a
\* row.  Then the deadlines are in the order of the (re)starts, and timers is
\* a first-in first-out queue.
Timer(kind, delay, sid, text) ==
    [kind |-> kind, rem |-> delay \div ChunkPause, sid |-> sid, text |-> text]

setTimeout(ts, kind, delay, sid, text) == Append(ts, Timer(kind, delay, sid, text))

\* the refs, the state and the environment an operation works on
Refs ==
    [ isSpeaking |-> isSpeaking,
      queue |-> utteranceQueueRef,
      index |-> currentUtteranceIndexRef,
      isCancelling |-> isCancellingRef,
      device |-> device,
      aborted |-> aborted,
      timers |-> timers,
      handed |-> FALSE,         \* an utterance was handed to the device
      devCancel |-> FALSE,      \* the device's cancel() was called
      threw |-> FALSE ]         \* a device call threw

\* the record of a step: the operation op, the session and chunk it is about
\* (of the utterance, for a device event), stale for the event of an
\* utterance the device's cancel() had removed, the text given to speak, what
\* the step did to the device, and the queue's length and the flag before it
Event(op, sid, idx, stale, text, r) ==
    [ op |-> op, sid |-> sid, idx |-> idx, stale |-> stale, text |-> text,
      handed |-> r.handed, devCancel |-> r.devCancel, threw |-> r.threw,
      qlen |-> Len(utteranceQueueRef), flag |-> isCancellingRef ]

\* finished: the sessions a chunk of which ended naturally; errored: the
\* sessions a chunk of which failed while the flag was down; preempted: the
\* sessions that had no finished chunk when a later speak() started;
\* cancelled: the sessions started before a cancel() that passed its guard, or
\* before the cleanup
Record(op, sid, stale) ==
    IF op = "onend" /\ ~stale
    THEN [hist EXCEPT !.finished = @ \cup {sid}]
    ELSE IF op = "onerror" /\ ~isCancellingRef
    THEN [hist EXCEPT !.errored = @ \cup {sid}]
    ELSE IF op = "speak" /\ sid > 0
    THEN [hist EXCEPT !.preempted = @ \cup ((1..nSessions) \ hist.finished)]
    ELSE IF (op = "cancel" /\ synthesisRef /\ isSpeaking) \/ op = "unmount"
    THEN [hist EXCEPT !.cancelled = @ \cup (1..nSessions)]
    ELSE hist

\* the operation's result becomes the next state of the playback controller
Effect(result, op, sid, idx, stale, text) ==
    \E r \in {result} :
        /\ last' = Event(op, sid, idx, stale, text, r)
        /\ hist' = Record(op, sid, stale)
        /\ isSpeaking' = r.isSpeaking
        /\ utteranceQueueRef' = r.queue
        /\ currentUtteranceIndexRef' = r.index
        /\ isCancellingRef' = r.isCancelling
        /\ device' = r.device
        /\ aborted' = r.aborted
        /\ timers' = r.timers
        /\ UNCHANGED replyVars

\* an operation of the playback controller alone
Commit(result, op, sid, idx, stale, text) ==
    /\ Effect(result, op, sid, idx, stale, text)
    /\ UNCHANGED appVars

\* ------------------------------------------------------------------------
\* The application component (src/src/App.tsx): its data

\* handleSendMessage calls in one run
MaxSends == 2

\* conversations made after construction, by handleNewConversation and
\* handleClearHistory
MaxConversations == 1

\* error: null
Null == "null"

\* a conversation; createdAt and updatedAt, which nothing reads, are left out
Conversation(id, title, messages) ==
    [id |-> id, title |-> title, messages |-> messages]

\* a message; send, the call of handleSendMessage it was made in, stands for
\* its id
Message(send, text, isUser) == [send |-> send, text |-> text, isUser |-> isUser]

\* text.length > 30 ? text.substring(0, 30) + '...' : text
Title(text) ==
    IF Len(text) > 30 THEN SubSeq(text, 1, 30) \o <<".", ".", ".">> ELSE text

\* state.conversations.find(c => c.id === state.currentConversationId) || {...}
currentConversation ==
    IF \E i \in 1..Len(state.conversations) :
           state.conversations[i].id = state.currentConversationId
    THEN state.conversations[
             CHOOSE i \in 1..Len(state.conversations) :
                 /\ state.conversations[i].id = state.currentConversationId
                 /\ \A j \in 1..(i - 1) :
                        state.conversations[j].id # state.currentConversationId]
    ELSE Conversation(state.currentConversationId, <<>>, <<>>)

\* prev.conversations.map(c => c.id === updatedConversation.id ? updatedConversation : c)
updateConversation(conversations, updatedConversation) ==
    [i \in 1..Len(conversations) |->
        IF conversations[i].id = updatedConversation.id
        THEN updatedConversation
        ELSE conversations[i]]

\* the two keys of localStorage: kind is "none" when artips-conversations is
\* absent, "list" when it holds a list and "corrupt" when JSON.parse throws
\* on it; currentId 0 stands for an absent artips-current-conversation-id
NoStorage == [kind |-> "none", conversations |-> <<>>, currentId |-> 0]

Stored(conversations, currentId) ==
    [kind |-> "list", conversations |-> conversations, currentId |-> currentId]

\* the effect that saves: it runs after a render in which state.conversations
\* or state.currentConversationId is new
Save(st, storage) ==
    IF Len(st.conversations) > 0
    THEN Stored(st.conversations, st.currentConversationId)
    ELSE storage

\* the effect that loads, on mount
Load(st, storage) ==
    IF storage.kind # "list" THEN st
    ELSE LET conversations == storage.conversations
             currentId ==
                 IF /\ storage.currentId # 0
                    /\ \E i \in 1..Len(conversations) :
                           conversations[i].id = storage.currentId
                 THEN storage.currentId
                 ELSE IF Len(conversations) > 0 THEN conversations[1].id
                 ELSE st.currentConversationId
         IN  [st EXCEPT !.conversations = conversations,
                        !.currentConversationId = currentId]

\* the message handleSendMessage shows for what it caught
ErrorMessage(failure) ==
    CASE failure = "network" -> "Network error: Unable to connect to the server."
      [] failure = "4xx" -> "Server error: The request was rejected."
      [] failure = "5xx" -> "Server error: The server is currently unavailable."
      [] OTHER -> "Error: message"

\* what the browser can hold when the page is opened: nothing, a history
\* whose current id is in the list, a history whose current id is not (what
\* a first visit without a message leaves), something JSON.parse rejects
StoredHistories ==
    { NoStorage,
      Stored(<<Conversation(101, <<"h">>, <<Message(0, <<"h">>, TRUE)>>),
               Conversation(102, <<>>, <<>>)>>, 102),
      Stored(<<Conversation(101, <<>>, <<>>)>>, 100),
      [kind |-> "corrupt", conversations |-> <<>>, currentId |-> 101] }

\* what the user types or says
UserTexts == {<<"h">>, <<"y">>}

\* the statuses and bodies the webhook answers a send with
Statuses == {"2xx", "3xx", "4xx", "5xx"}

ReplyBodies ==
    { <<" ">>,
      JsonStringify(JObject(<<Member(Key.output, JString(<<"<", "b", ">", "d">>))>>)) }

\* sendMessageToWebhook on every answer of the webhook: ok is response.ok
answers ==
    [ok \in BOOLEAN, body \in ReplyBodies |-> sendMessageToWebhook(ok, body)]

\* useState of App: generateId() is called twice, once for
\* currentConversationId and once for the id of the first conversation
AppConstructed ==
    /\ state = [ currentConversationId |-> 1,
                 conversations |-> <<Conversation(2, <<>>, <<>>)>>,
                 isProcessing |-> FALSE,
                 error |-> Null ]
    /\ inFlight = {}
    /\ generated = 2
    /\ nSends = 0
    /\ appMounted = FALSE
    /\ appLast = [op |-> "init", send |-> 0, status |-> "none"]

\* the playback controller after construction
HookInit ==
    /\ mounted = "new"
    /\ isSupported = FALSE
    /\ synthesisRef = FALSE
    /\ isInitializedRef = FALSE
    /\ voicesLoadedRef = FALSE
    /\ selectedVoiceRef = FALSE
    /\ onvoiceschanged = FALSE
    /\ isSpeaking = FALSE
    /\ utteranceQueueRef = <<>>
    /\ currentUtteranceIndexRef = 0
    /\ isCancellingRef = FALSE
    /\ device = <<>>
    /\ aborted = <<>>
    /\ timers = <<>>
    /\ nSessions = 0
    /\ last = Event("init", 0, 0, FALSE, <<>>, Refs)
    /\ hist = [finished |-> {}, errored |-> {}, preempted |-> {}, cancelled |-> {}]

\* no reply is on its way
NoReply ==
    /\ stage = "idle"
    /\ textData = <<>>
    /\ document = [kind |-> "none"]
    /\ response = Returns(<<>>)
    /\ again = Returns(<<>>)
    /\ spokenText = <<>>
    /\ processedText = <<>>
    /\ speechChunks = <<>>

Init == HookInit /\ NoReply /\ AppConstructed /\ localStorage = NoStorage

\* ------------------------------------------------------------------------
\* The speech device

\* synthesisRef.current.cancel(): every utterance leaves the device's queue;
\* its last event (end or error) is delivered later.  A call that throws
\* leaves the device as it was.
deviceCancel(r, throws) ==
    IF throws
    THEN [r EXCEPT !.devCancel = TRUE, !.threw = TRUE]
    ELSE [r EXCEPT !.devCancel = TRUE,
                   !.device = <<>>,
                   !.aborted = r.aborted \o [i \in 1..Len(r.device) |-> r.device[i].u]]

\* utterance.text = AUDIBLE_PREFIX + utterance.text, on the one object the
\* queue and the device may both hold
Prefixed(u, v) ==
    IF SameUtterance(u, v) THEN [v EXCEPT !.prefixes = @ + 1] ELSE v

addPrefix(r, u) ==
    [r EXCEPT
        !.queue = [i \in 1..Len(r.queue) |-> Prefixed(u, r.queue[i])],
        !.device = [i \in 1..Len(r.device) |->
                       [r.device[i] EXCEPT !.u = Prefixed(u, r.device[i].u)]],
        !.aborted = [i \in 1..Len(r.aborted) |-> Prefixed(u, r.aborted[i])]]

\* synthesisRef.current.speak(utterance)
deviceSpeak(r, u) ==
    [r EXCEPT !.device = Append(r.device, [u |-> u, started |-> FALSE]),
              !.handed = TRUE]

\* ------------------------------------------------------------------------
\* speakNextChunk and the callbacks it attaches

stopAndClear(r) ==
    [r EXCEPT !.isSpeaking = FALSE, !.queue = <<>>, !.index = 0]

speakNextChunk(r, throws) ==
    IF r.isCancelling
    THEN [r EXCEPT !.isSpeaking = FALSE]
    ELSE IF ~synthesisRef \/ r.index >= Len(r.queue)
    THEN stopAndClear(r)
    ELSE LET utterance == r.queue[r.index + 1]
             r1 == IF r.index = 0 THEN addPrefix(r, utterance) ELSE r
         IN  IF throws
             THEN [stopAndClear(r1) EXCEPT !.threw = TRUE]
             ELSE deviceSpeak(r1, r1.queue[r.index + 1])

\* mutant of onend: the cursor moves on but the advance step is not scheduled
onendNoAdvance(r) ==
    IF r.isCancelling
    THEN [r EXCEPT !.isSpeaking = FALSE]
    ELSE [r EXCEPT !.index = @ + 1]

onend(r) ==
    IF r.isCancelling
    THEN [r EXCEPT !.isSpeaking = FALSE]
    ELSE [r EXCEPT !.index = @ + 1,
                   !.timers = setTimeout(r.timers, "advance", ChunkPause, 0, <<>>)]

\* mutant of onerror: a failed chunk is skipped and the next one is played
onerrorSkipsChunk(r) ==
    IF r.isCancelling
    THEN [r EXCEPT !.isSpeaking = FALSE]
    ELSE [r EXCEPT !.index = @ + 1,
                   !.timers = setTimeout(r.timers, "advance", ChunkPause, 0, <<>>)]

onerror(r) ==
    IF r.isCancelling
    THEN [r EXCEPT !.isSpeaking = FALSE]
    ELSE stopAndClear(r)

onstart(r) == [r EXCEPT !.isSpeaking = TRUE]

\* ------------------------------------------------------------------------
\* Initialisation and voices

\* processVoices with avail: getVoices() is not empty.  A voice list that is
\* not empty always yields a selected voice.
processVoices(synth, avail, loaded) == loaded \/ (synth /\ avail)

\* the effect on mount: initializeSpeechSynthesis()
initializeSpeechSynthesis(supported, voicesNow, hasEvent) ==
    /\ mounted = "new"
    /\ mounted' = "mounted"
    /\ IF supported
       THEN /\ synthesisRef' = TRUE
            /\ isSupported' = TRUE
            /\ isInitializedRef' = TRUE
            /\ voicesLoadedRef' = processVoices(TRUE, voicesNow, voicesLoadedRef)
            /\ selectedVoiceRef' = processVoices(TRUE, voicesNow, selectedVoiceRef)
            /\ onvoiceschanged' = hasEvent
            /\ timers' = IF hasEvent THEN timers
                         ELSE setTimeout(timers, "voices", VoicesDelay, 0, <<>>)
       ELSE /\ isSupported' = FALSE
            /\ UNCHANGED << synthesisRef, isInitializedRef, voicesLoadedRef,
                            selectedVoiceRef, onvoiceschanged, timers >>
    /\ last' = Event("mount", 0, 0, FALSE, <<>>, Refs)
    /\ UNCHANGED << hist, isSpeaking, utteranceQueueRef, currentUtteranceIndexRef,
                    isCancellingRef, device, aborted, nSessions >>
    /\ UNCHANGED replyVars
    /\ UNCHANGED appVars

Mount == \E supported, voicesNow, hasEvent \in BOOLEAN :
            initializeSpeechSynthesis(supported, voicesNow, hasEvent)

\* the device's voiceschanged event
VoicesChanged ==
    /\ onvoiceschanged
    /\ \E avail \in BOOLEAN :
         /\ voicesLoadedRef' = processVoices(synthesisRef, avail, voicesLoadedRef)
         /\ selectedVoiceRef' = processVoices(synthesisRef, avail, selectedVoiceRef)
    /\ last' = Event("voices", 0, 0, FALSE, <<>>, Refs)
    /\ UNCHANGED << hist, mounted, isSupported, synthesisRef, isInitializedRef,
                    onvoiceschanged, isSpeaking, utteranceQueueRef,
                    currentUtteranceIndexRef, isCancellingRef, device, aborted,
                    timers, nSessions >>
    /\ UNCHANGED replyVars
    /\ UNCHANGED appVars

\* ------------------------------------------------------------------------
\* speak

\* mutant of speakRejects: the text is not looked at
speakRejectsNotReady(text) ==
    ~synthesisRef \/ ~isInitializedRef \/ ~voicesLoadedRef \/ ~selectedVoiceRef

speakRejects(text) ==
    \/ IsBlank(text)
    \/ ~synthesisRef \/ ~isInitializedRef \/ ~voicesLoadedRef \/ ~selectedVoiceRef

\* the body of speak past its guards; an exception of the device's cancel()
\* leaves speak before the timer is set
speak(r, sid, text, throws) ==
    LET r1 == deviceCancel([r EXCEPT !.isCancelling = TRUE], throws)
    IN  IF throws THEN r1
        ELSE [r1 EXCEPT !.timers = setTimeout(r1.timers, "settle", SettleDelay, sid, text)]

Speak ==
    /\ mounted = "mounted"
    /\ \E text \in Texts, throws \in BOOLEAN :
         IF speakRejects(text)
         THEN /\ ~throws
              /\ Commit(Refs, "speak", 0, 0, FALSE, text)
              /\ UNCHANGED nSessions
         ELSE /\ nSessions < MaxSessions
              /\ Commit(speak(Refs, nSessions + 1, text, throws), "speak",
                        IF throws THEN 0 ELSE nSessions + 1, 0, FALSE, text)
              /\ nSessions' = IF throws THEN nSessions ELSE nSessions + 1
    /\ UNCHANGED initVars

\* mutant of settle: the flag is left up when playback starts
settleKeepsFlag(r, sid, text, throws) ==
    LET chunks == chunksOf[text]
    IN  IF Len(chunks) = 0 THEN r
        ELSE speakNextChunk(
                 [r EXCEPT !.queue = [i \in 1..Len(chunks) |->
                                         Utterance(sid, i - 1, chunks[i])],
                           !.index = 0,
                           !.isSpeaking = TRUE],
                 throws)

\* the callback speak hands to setTimeout
settle(r, sid, text, throws) ==
    LET r1 == [r EXCEPT !.isCancelling = FALSE]
        chunks == chunksOf[text]
    IN  IF Len(chunks) = 0 THEN r1
        ELSE speakNextChunk(
                 [r1 EXCEPT !.queue = [i \in 1..Len(chunks) |->
                                          Utterance(sid, i - 1, chunks[i])],
                            !.index = 0,
                            !.isSpeaking = TRUE],
                 throws)

\* ------------------------------------------------------------------------
\* cancel and the effect's cleanup

\* mutant of cancelRejects: isSpeaking is not looked at
cancelRejectsNoDevice == ~synthesisRef

cancelRejects == ~synthesisRef \/ ~isSpeaking

\* mutant of cancel: the rest of cancel is skipped when the device throws
cancelNoFinally(r, throws) ==
    IF cancelRejects THEN r
    ELSE LET r1 == [r EXCEPT !.isCancelling = TRUE, !.queue = <<>>, !.index = 0]
             r2 == deviceCancel(r1, throws)
         IN  IF throws THEN r2
             ELSE [r2 EXCEPT !.isSpeaking = FALSE,
                             !.timers = setTimeout(r2.timers, "grace", GraceDelay, 0, <<>>)]

cancel(r, throws) ==
    IF cancelRejects THEN r
    ELSE LET r1 == [r EXCEPT !.isCancelling = TRUE, !.queue = <<>>, !.index = 0]
             r2 == deviceCancel(r1, throws)
         IN  [r2 EXCEPT !.isSpeaking = FALSE,
                        !.timers = setTimeout(r2.timers, "grace", GraceDelay, 0, <<>>)]

Cancel ==
    /\ mounted = "mounted"
    /\ \E throws \in BOOLEAN :
         /\ cancelRejects => ~throws
         /\ Commit(cancel(Refs, throws), "cancel", 0, 0, FALSE, <<>>)
    /\ UNCHANGED initVars
    /\ UNCHANGED nSessions

cleanup(r, throws) ==
    LET r1 == IF synthesisRef
              THEN deviceCancel([r EXCEPT !.isCancelling = TRUE], throws)
              ELSE r
    IN  [r1 EXCEPT !.queue = <<>>, !.index = 0]

Unmount ==
    /\ mounted = "mounted"
    /\ mounted' = "unmounted"
    /\ onvoiceschanged' = FALSE
    /\ \E throws \in BOOLEAN :
         /\ ~synthesisRef => ~throws
         /\ Commit(cleanup(Refs, throws), "unmount", 0, 0, FALSE, <<>>)
    /\ UNCHANGED << isSupported, synthesisRef, isInitializedRef, voicesLoadedRef,
                    selectedVoiceRef, nSessions >>

\* ------------------------------------------------------------------------
\* Timers

Popped == [Refs EXCEPT !.timers = Tail(timers)]

Due(kind) == timers # <<>> /\ Head(timers).kind = kind /\ Head(timers).rem = 1

\* ChunkPause milliseconds pass for the timer with the nearest deadline and
\* more of its delay is left
Elapse ==
    /\ timers # <<>>
    /\ Head(timers).rem > 1
    /\ timers' = Append(Tail(timers), [Head(timers) EXCEPT !.rem = @ - 1])
    /\ last' = Event("elapse", 0, 0, FALSE, <<>>, Refs)
    /\ UNCHANGED << hist, isSpeaking, utteranceQueueRef, currentUtteranceIndexRef,
                    isCancellingRef, device, aborted, nSessions >>
    /\ UNCHANGED initVars
    /\ UNCHANGED replyVars
    /\ UNCHANGED appVars

SettleTimeout ==
    /\ Due("settle")
    /\ \E throws \in BOOLEAN :
         Commit(settle(Popped, Head(timers).sid, Head(timers).text, throws),
                "settle", Head(timers).sid, 0, FALSE, <<>>)
    /\ UNCHANGED initVars
    /\ UNCHANGED nSessions

AdvanceTimeout ==
    /\ Due("advance")
    /\ \E throws \in BOOLEAN :
         Commit(speakNextChunk(Popped, throws), "advance", 0, 0, FALSE, <<>>)
    /\ UNCHANGED initVars
    /\ UNCHANGED nSessions

GraceTimeout ==
    /\ Due("grace")
    /\ Commit([Popped EXCEPT !.isCancelling = FALSE], "grace", 0, 0, FALSE, <<>>)
    /\ UNCHANGED initVars
    /\ UNCHANGED nSessions

VoicesTimeout ==
    /\ Due("voices")
    /\ \E avail \in BOOLEAN :
         /\ voicesLoadedRef' = processVoices(synthesisRef, avail, voicesLoadedRef)
         /\ selectedVoiceRef' = processVoices(synthesisRef, avail, selectedVoiceRef)
    /\ Commit(Popped, "voicesTimer", 0, 0, FALSE, <<>>)
    /\ UNCHANGED << mounted, isSupported, synthesisRef, isInitializedRef,
                    onvoiceschanged, nSessions >>

\* ------------------------------------------------------------------------
\* Device events

DeviceStart ==
    /\ device # <<>>
    /\ ~device[1].started
    /\ Commit(onstart([Refs EXCEPT !.device[1].started = TRUE]),
              "onstart", device[1].u.sid, device[1].u.idx, FALSE, <<>>)
    /\ UNCHANGED initVars
    /\ UNCHANGED nSessions

DeviceEnd ==
    /\ device # <<>>
    /\ device[1].started
    /\ Commit(onend([Refs EXCEPT !.device = Tail(device)]),
              "onend", device[1].u.sid, device[1].u.idx, FALSE, <<>>)
    /\ UNCHANGED initVars
    /\ UNCHANGED nSessions

DeviceError ==
    /\ device # <<>>
    /\ Commit(onerror([Refs EXCEPT !.device = Tail(device)]),
              "onerror", device[1].u.sid, device[1].u.idx, FALSE, <<>>)
    /\ UNCHANGED initVars
    /\ UNCHANGED nSessions

\* the last event of an utterance the device's cancel() removed: an error
\* event (interrupted, canceled), or an end event on some browsers
AbortedEnd ==
    /\ aborted # <<>>
    /\ Commit(onend([Refs EXCEPT !.aborted = Tail(aborted)]),
              "onend", aborted[1].sid, aborted[1].idx, TRUE, <<>>)
    /\ UNCHANGED initVars
    /\ UNCHANGED nSessions

AbortedError ==
    /\ aborted # <<>>
    /\ Commit(onerror([Refs EXCEPT !.aborted = Tail(aborted)]),
              "onerror", aborted[1].sid, aborted[1].idx, TRUE, <<>>)
    /\ UNCHANGED initVars
    /\ UNCHANGED nSessions

\* ------------------------------------------------------------------------
\* Specification

Next ==
    \/ Mount
    \/ VoicesChanged
    \/ Speak
    \/ Cancel
    \/ Unmount
    \/ Elapse
    \/ SettleTimeout
    \/ AdvanceTimeout
    \/ GraceTimeout
    \/ VoicesTimeout
    \/ DeviceStart
    \/ DeviceEnd
    \/ DeviceError
    \/ AbortedEnd
    \/ AbortedError

Spec == Init /\ [][Next]_vars

\* The event loop runs every timer callback when its delay has passed, and the
\* device plays the utterances it holds: each one starts, and ends unless it
\* fails or is removed first.
LiveSpec ==
    /\ Spec
    /\ WF_vars(Elapse)
    /\ WF_vars(SettleTimeout)
    /\ WF_vars(AdvanceTimeout)
    /\ WF_vars(GraceTimeout)
    /\ WF_vars(VoicesTimeout)
    /\ WF_vars(DeviceStart)
    /\ WF_vars(DeviceEnd)

\* ------------------------------------------------------------------------
\* A reply on its way: from the webhook's response to the chunks of speech

\* fetch has answered with one of the bodies
ReplyInit ==
    /\ HookInit
    /\ AppConstructed
    /\ localStorage = NoStorage
    /\ stage = "fetched"
    /\ \E b \in Bodies : textData = b.textData /\ document = b.document
    /\ response = Returns(<<>>)
    /\ again = Returns(<<>>)
    /\ spokenText = <<>>
    /\ processedText = <<>>
    /\ speechChunks = <<>>

\* sendMessageToWebhook on the response of fetch
Answer ==
    /\ stage = "fetched"
    /\ \E ok \in BOOLEAN :
         /\ response' = sendMessageToWebhook(ok, textData)
         /\ stage' = IF ok THEN "answered" ELSE "failed"
    /\ UNCHANGED << textData, document, again, spokenText, processedText, speechChunks >>
    /\ UNCHANGED hookVars
    /\ UNCHANGED appVars

\* formatResponseText called on the body as it is
Format ==
    /\ stage = "fetched"
    /\ response' = formatResponseText(textData)
    /\ stage' = "formatted"
    /\ UNCHANGED << textData, document, again, spokenText, processedText, speechChunks >>
    /\ UNCHANGED hookVars
    /\ UNCHANGED appVars

\* the text the call gave back is given to the call once more
AnswerAgain ==
    /\ stage = "answered"
    /\ ~response.threw
    /\ again' = sendMessageToWebhook(TRUE, response.text)
    /\ stage' = "answeredTwice"
    /\ UNCHANGED << textData, document, response, spokenText, processedText,
                    speechChunks >>
    /\ UNCHANGED hookVars
    /\ UNCHANGED appVars

\* speak, past its timer, processes the text it was given: the formatted
\* reply, or the body as it is for a caller that formats nothing
Process ==
    /\ stage \in {"fetched", "answered"}
    /\ ~response.threw
    /\ spokenText' = IF stage = "fetched" THEN textData ELSE response.text
    /\ processedText' = processTextForSpeech(spokenText')
    /\ stage' = "processed"
    /\ UNCHANGED << textData, document, response, again, speechChunks >>
    /\ UNCHANGED hookVars
    /\ UNCHANGED appVars

\* and splits the processed text
Split ==
    /\ stage = "processed"
    /\ speechChunks' = splitIntoSentences(processedText)
    /\ stage' = "chunked"
    /\ UNCHANGED << textData, document, response, again, spokenText, processedText >>
    /\ UNCHANGED hookVars
    /\ UNCHANGED appVars

ReplyNext ==
    \/ Answer
    \/ Format
    \/ AnswerAgain
    \/ Process
    \/ Split

ReplySpec == ReplyInit /\ [][ReplyNext]_vars

\* ------------------------------------------------------------------------
\* The application component: its effects and handlers

\* what a step of App leaves alone when it calls nothing of the hook
HookUntouched == UNCHANGED hookVars /\ UNCHANGED replyVars

\* the effects of the first commit have run, those of App and, after them,
\* the one of the hook: the handlers are called from then on
Ready == appMounted /\ mounted = "mounted"

\* the effects of App on mount: the one that loads queues its setState, the
\* one that saves runs on the state of the first render, and runs again
\* after the render of the loaded state
AppMount ==
    /\ ~appMounted
    /\ appMounted' = TRUE
    /\ state' = Load(state, localStorage)
    /\ localStorage' =
           IF localStorage.kind = "list"
           THEN Save(Load(state, localStorage), Save(state, localStorage))
           ELSE Save(state, localStorage)
    /\ appLast' = [op |-> "mount", send |-> 0, status |-> "none"]
    /\ UNCHANGED << inFlight, generated, nSends >>
    /\ HookUntouched

\* handleSendMessage up to its await
SendStart(text) ==
    LET send == nSends + 1
        userMessage == Message(send, text, TRUE)
        updatedConversation ==
            [currentConversation EXCEPT
                !.messages = Append(@, userMessage),
                !.title = IF Len(currentConversation.messages) = 0
                             /\ currentConversation.title = <<>>
                          THEN Title(text) ELSE @]
    IN  /\ Ready
        /\ nSends < MaxSends
        /\ nSends' = send
        /\ state' = [state EXCEPT
                        !.conversations = updateConversation(@, updatedConversation),
                        !.isProcessing = TRUE,
                        !.error = Null]
        /\ localStorage' = Save(state', localStorage)
        /\ inFlight' = inFlight \cup
               {[ send |-> send, text |-> text,
                  updatedConversation |-> updatedConversation,
                  isSpeechSynthesisSupported |-> isSupported ]}
        /\ appLast' = [op |-> "send", send |-> send, status |-> "none"]
        /\ UNCHANGED << generated, appMounted >>
        /\ IF isSpeaking
           THEN /\ \E throws \in BOOLEAN :
                     Effect(cancel(Refs, throws), "cancel", 0, 0, FALSE, <<>>)
                /\ UNCHANGED initVars
                /\ UNCHANGED nSessions
           ELSE HookUntouched

\* the catch of handleSendMessage
Caught(failure) ==
    [state EXCEPT !.isProcessing = FALSE, !.error = ErrorMessage(failure)]

\* handleSendMessage from the line after its await, with what
\* sendMessageToWebhook gave back or threw
Resume(s, status, reply, throws) ==
    LET agentMessage == Message(s.send, reply.text, FALSE)
        finalConversation ==
            [s.updatedConversation EXCEPT !.messages = Append(@, agentMessage)]
        replied ==
            [state EXCEPT
                !.conversations = updateConversation(@, finalConversation),
                !.isProcessing = FALSE]
        speaks == s.isSpeechSynthesisSupported /\ ~speakRejects(reply.text)
    IN  /\ s \in inFlight
        /\ inFlight' = inFlight \ {s}
        /\ UNCHANGED << generated, nSends, appMounted >>
        /\ IF reply.threw
           THEN /\ ~throws
                /\ state' = Caught(status)
                /\ UNCHANGED localStorage
                /\ appLast' = [op |-> "failed", send |-> s.send, status |-> status]
                /\ HookUntouched
           ELSE /\ localStorage' = Save(replied, localStorage)
                /\ appLast' = [op |-> "replied", send |-> s.send, status |-> status]
                /\ IF speaks
                   THEN /\ nSessions < MaxSessions
                        /\ state' = IF throws
                                    THEN [replied EXCEPT !.error = ErrorMessage("thrown")]
                                    ELSE replied
                        /\ Effect(speak(Refs, nSessions + 1, reply.text, throws),
                                  "speak", IF throws THEN 0 ELSE nSessions + 1, 0,
                                  FALSE, reply.text)
                        /\ nSessions' = IF throws THEN nSessions ELSE nSessions + 1
                        /\ UNCHANGED initVars
                   ELSE /\ ~throws
                        /\ state' = replied
                        /\ HookUntouched

\* the fetch of a call answers with a status and a body
SendReply(s, status, body, throws) ==
    Resume(s, status, answers[status = "2xx", body], throws)

\* handleSendMessage from its catch, for a call whose fetch has rejected
SendFails(s) ==
    /\ s \in inFlight
    /\ inFlight' = inFlight \ {s}
    /\ state' = Caught("network")
    /\ appLast' = [op |-> "failed", send |-> s.send, status |-> "network"]
    /\ UNCHANGED << localStorage, generated, nSends, appMounted >>
    /\ HookUntouched

handleNewConversation ==
    /\ Ready
    /\ generated - 2 < MaxConversations
    /\ generated' = generated + 1
    /\ state' = [state EXCEPT
                    !.conversations =
                        <<Conversation(generated + 1, <<>>, <<>>)>> \o @,
                    !.currentConversationId = generated + 1]
    /\ localStorage' = Save(state', localStorage)
    /\ appLast' = [op |-> "new", send |-> 0, status |-> "none"]
    /\ UNCHANGED << inFlight, nSends, appMounted >>
    /\ HookUntouched

\* the history panel loads one of the conversations it lists
handleLoadConversation(conversationId) ==
    /\ Ready
    /\ state' = [state EXCEPT !.currentConversationId = conversationId]
    /\ localStorage' = Save(state', localStorage)
    /\ appLast' = [op |-> "load", send |-> 0, status |-> "none"]
    /\ UNCHANGED << inFlight, generated, nSends, appMounted >>
    /\ HookUntouched

\* handleClearHistory, confirmed: the keys are removed, and written again by
\* the effect that saves, after the render of the new list
handleClearHistory ==
    /\ Ready
    /\ generated - 2 < MaxConversations
    /\ generated' = generated + 1
    /\ state' = [state EXCEPT
                    !.conversations = <<Conversation(generated + 1, <<>>, <<>>)>>,
                    !.currentConversationId = generated + 1]
    /\ localStorage' = Save(state', NoStorage)
    /\ appLast' = [op |-> "clear", send |-> 0, status |-> "none"]
    /\ UNCHANGED << inFlight, nSends, appMounted >>
    /\ HookUntouched

\* setError(null), by the banner's button
DismissError ==
    /\ Ready
    /\ state.error # Null
    /\ state' = [state EXCEPT !.error = Null]
    /\ appLast' = [op |-> "dismiss", send |-> 0, status |-> "none"]
    /\ UNCHANGED << localStorage, inFlight, generated, nSends, appMounted >>
    /\ HookUntouched

\* the effect of the hook on mount, in a browser that has the voiceschanged
\* event
HookMount ==
    /\ appMounted
    /\ \E supported, voicesNow \in BOOLEAN :
           initializeSpeechSynthesis(supported, voicesNow, TRUE)

\* the page is opened with what the browser holds
AppInit ==
    /\ HookInit
    /\ NoReply
    /\ AppConstructed
    /\ localStorage \in StoredHistories

AppNext ==
    \/ AppMount
    \/ HookMount
    \/ \E text \in UserTexts : SendStart(text)
    \/ \E s \in inFlight, status \in Statuses, body \in ReplyBodies, throws \in BOOLEAN :
           SendReply(s, status, body, throws)
    \/ \E s \in inFlight : SendFails(s)
    \/ handleNewConversation
    \/ \E i \in 1..Len(state.conversations) :
           handleLoadConversation(state.conversations[i].id)
    \/ handleClearHistory
    \/ DismissError

AppSpec == AppInit /\ [][AppNext]_vars

\* ------------------------------------------------------------------------
\* Properties

\* the utterance the last step handed to the device
Handed == device[Len(device)].u

\* a device event of an utterance whose session was superseded by a later
\* speak() or removed from the device by a cancel
StaleEvent(e) ==
    /\ e.op \in {"onend", "onerror"}
    /\ e.stale \/ e.sid < nSessions

\* C1: when speak(B) follows speak(A) before any chunk of A has finished, no
\* utterance built from A's text is handed to the device from then on.  B's
\* speak empties the device, so that an utterance of A the device holds
\* afterwards was handed to it after B started.
C1_OnlyLatestVocalized ==
    \A i \in 1..Len(device) : device[i].u.sid \notin hist.preempted

\* C2: the end or error event of an utterance of a superseded or cancelled
\* session never advances the cursor, never clears the queue and never
\* schedules the advance step of the session that is current when it fires
\* (the session whose utterances the queue holds).
C2_StaleCallbacksDiscarded ==
    [][(/\ StaleEvent(last')
        /\ utteranceQueueRef # <<>>
        /\ utteranceQueueRef[1].sid # last'.sid)
       => UNCHANGED << currentUtteranceIndexRef, utteranceQueueRef, timers >>]_vars

\* C3: the utterances the device holds all belong to one speak() invocation.
C3_OneLiveSession ==
    \A i, j \in 1..Len(device) : device[i].u.sid = device[j].u.sid

\* C4: an error event that finds the flag down aborts the session: right
\* after it the queue is empty, the cursor is 0 and isSpeaking is false, and
\* no chunk of that session is handed to the device afterwards.
C4_ErrorAbortsSession ==
    [][/\ (last'.op = "onerror" /\ ~isCancellingRef) =>
             /\ Len(utteranceQueueRef') = 0
             /\ currentUtteranceIndexRef' = 0
             /\ ~isSpeaking'
       /\ last'.handed => device'[Len(device')].u.sid \notin hist'.errored]_vars

\* an error in the middle of a queue of several chunks
C4_Witness ==
    /\ last.op = "onerror"
    /\ ~last.flag
    /\ ~last.stale
    /\ last.qlen > 1
    /\ last.sid \in hist.errored
    /\ utteranceQueueRef = <<>>

\* the settle timer of session sid is pending
SettlePending(sid) ==
    \E i \in 1..Len(timers) : timers[i].kind = "settle" /\ timers[i].sid = sid

\* the settle timer of session sid has just handed the session's first chunk
\* to the device; the device's speak may refuse it by throwing
FirstChunkHanded(sid) ==
    /\ last.op = "settle"
    /\ last.sid = sid
    /\ last.handed \/ last.threw

\* C5: whatever happened to the sessions before it, a speak() that passed its
\* guards eventually hands its first chunk to the device.
C5_SpeakNotBlocked ==
    \A sid \in 1..MaxSessions : SettlePending(sid) ~> FirstChunkHanded(sid)

\* the second session hands its first chunk; the first one had played a chunk
\* before the second speak() and ended by a device error
C5_Witness ==
    /\ last.op = "settle"
    /\ last.sid = 2
    /\ last.handed
    /\ Handed.sid = 2
    /\ hist.finished = {1}
    /\ hist.errored = {1}
    /\ hist.preempted = {}

Idle ==
    /\ ~isSpeaking
    /\ utteranceQueueRef = <<>>
    /\ currentUtteranceIndexRef = 0

\* C10: a session whose chunks all end naturally, with no further speak() or
\* cancel(), reaches the idle state: from the step that starts playback, the
\* controller becomes idle unless speak(), cancel() or the cleanup is called.
C10_NaturalEndReachesIdle ==
    (last.op = "settle" /\ last.handed)
        ~> (Idle \/ last.op \in {"speak", "cancel", "unmount"})

\* the advance step after the last of two chunks finds the queue exhausted
C10_Witness ==
    /\ Idle
    /\ last.op = "advance"
    /\ last.qlen = 2
    /\ nSessions = 1
    /\ hist.finished = {1}
    /\ hist.errored = {}
    /\ device = <<>>
    /\ aborted = <<>>

\* what cancel() and a rejected speak() must leave alone
Playback ==
    << utteranceQueueRef, currentUtteranceIndexRef, isCancellingRef, isSpeaking,
       timers, device, aborted >>

\* C6: cancel() with isSpeaking false, or with no device, issues no device
\* operation, schedules no timer and leaves the queue, the cursor, the flag
\* and isSpeaking as they were.
C6_CancelIdleNoOp ==
    [][(last'.op = "cancel" /\ (~isSpeaking \/ ~synthesisRef))
       => (~last'.devCancel /\ UNCHANGED Playback)]_vars

\* cancel() with isSpeaking false while a speak() waits for its settle timer
C6_Witness ==
    /\ last.op = "cancel"
    /\ ~last.devCancel
    /\ synthesisRef
    /\ ~isSpeaking
    /\ isCancellingRef
    /\ SettlePending(1)

\* C7: cancel() with isSpeaking true raises the flag, empties the queue,
\* resets the cursor, asks the device to stop and sets isSpeaking to false,
\* also when the device's cancel throws; the timer it sets with the grace
\* delay then lowers the flag.
C7_CancelEffect ==
    [][/\ (last'.op = "cancel" /\ isSpeaking /\ synthesisRef) =>
             /\ isCancellingRef'
             /\ utteranceQueueRef' = <<>>
             /\ currentUtteranceIndexRef' = 0
             /\ last'.devCancel
             /\ ~last'.threw => (device' = <<>>)
             /\ ~isSpeaking'
             /\ timers' = Append(timers, Timer("grace", GraceDelay, 0, <<>>))
       /\ last'.op = "grace" => ~isCancellingRef']_vars

\* cancel() during playback with a device whose cancel throws
C7_Witness ==
    /\ last.op = "cancel"
    /\ last.devCancel
    /\ last.threw
    /\ last.qlen > 0
    /\ device # <<>>
    /\ ~isSpeaking
    /\ isCancellingRef

\* C8: speak(text) with a blank text, or before the device and a voice are
\* ready, issues no device cancel, raises no flag, schedules no timer and
\* leaves the queue, the cursor and isSpeaking as they were.
C8_SpeakRejectedNoOp ==
    [][(/\ last'.op = "speak"
        /\ \/ IsBlank(last'.text)
           \/ ~synthesisRef \/ ~isInitializedRef
           \/ ~voicesLoadedRef \/ ~selectedVoiceRef)
       => (~last'.devCancel /\ UNCHANGED Playback)]_vars

\* speak() with a blank text during playback
C8_Witness ==
    /\ last.op = "speak"
    /\ IsBlank(last.text)
    /\ ~last.devCancel
    /\ voicesLoadedRef
    /\ isSpeaking
    /\ device # <<>>

\* C9: in a session that is not cancelled, superseded or errored, a chunk is
\* handed to the device only when no other chunk of the session is held by it
\* (one at a time), the first chunk once, and a later chunk only by the
\* advance step that the end of the chunk before it scheduled.
C9_OneAtATimeInOrder ==
    (/\ last.handed
     /\ Handed.sid = nSessions
     /\ Handed.sid \notin (hist.cancelled \cup hist.errored))
    => /\ \A i \in 1..(Len(device) - 1) : device[i].u.sid # Handed.sid
       /\ Handed.idx = 0 => (last.op = "settle" /\ Handed.prefixes = 1)
       /\ Handed.idx > 0 => last.op = "advance"

\* every utterance object the controller or the device holds
Held ==
    {utteranceQueueRef[i] : i \in 1..Len(utteranceQueueRef)}
        \cup {device[i].u : i \in 1..Len(device)}
        \cup {aborted[i] : i \in 1..Len(aborted)}

\* C11: the spoken prefix is put once in front of the first chunk handed to
\* the device and in front of no other chunk: an utterance the device was
\* handed carries it once when it is the first chunk of its session and not
\* at all otherwise, and no utterance carries it twice.
C11_PrefixExactlyOnce ==
    /\ \A u \in Held : u.prefixes <= 1
    /\ \A u \in Held : u.idx > 0 => u.prefixes = 0
    /\ \A i \in 1..Len(device) : device[i].u.idx = 0 => device[i].u.prefixes = 1

\* C12: a start, end or error callback that finds the flag up does not set
\* isSpeaking to true, leaves the cursor and the queue as they were and
\* schedules no advance step.
C12_FlagCheckedByCallbacks ==
    [][(last'.op \in {"onstart", "onend", "onerror"} /\ isCancellingRef)
       => /\ isSpeaking' => isSpeaking
          /\ UNCHANGED << currentUtteranceIndexRef, utteranceQueueRef, timers >>]_vars

\* C13: formatResponseText returns a text for every body and never throws;
\* for a body that JSON.parse rejects, the text is the cleaned body itself.
C13_FormatterTotal ==
    stage = "formatted" =>
        /\ ~response.threw
        /\ document.kind \in {"truncated", "comma"} =>
               response.text = cleanHtmlAndFormatText(textData)

\* C13 happens: a damaged JSON body was formatted into some text
C13_Witness ==
    /\ stage = "formatted"
    /\ document.kind \in {"truncated", "comma"}
    /\ ~Parses(textData)
    /\ response.text # <<>>

\* C14: for an empty or whitespace-only body of a successful response,
\* sendMessageToWebhook returns the fixed message: it does not throw and the
\* text it returns is not empty.
C14_BlankYieldsFallback ==
    (stage = "answered" /\ Trim(textData) = <<>>) =>
        /\ ~response.threw
        /\ response.text = EmptyResponseMessage
        /\ response.text # <<>>

\* C14 happens: a body of whitespace alone was answered with the message
C14_Witness ==
    /\ stage = "answered"
    /\ textData # <<>>
    /\ Trim(textData) = <<>>
    /\ response = Returns(EmptyResponseMessage)

\* C15: for a body that is a JSON object, the text is the cleaned value of
\* the first property that holds a string, in the order output, response,
\* message, text, content, result, answer, data, data.response,
\* data.message, data.text.
C15_Precedence ==
    LET paths == << <<Key.output>>, <<Key.response>>, <<Key.message>>, <<Key.text>>,
                    <<Key.content>>, <<Key.result>>, <<Key.answer>>, <<Key.data>>,
                    <<Key.data, Key.response>>, <<Key.data, Key.message>>,
                    <<Key.data, Key.text>> >>
        At(p) == IF Len(p) = 1 THEN Prop(document.v, p[1])
                 ELSE Prop(Prop(document.v, p[1]), p[2])
        hits == {i \in 1..Len(paths) : IsString(At(paths[i]))}
    IN  ( /\ stage \in {"formatted", "answered"}
          /\ document.kind = "json"
          /\ document.v.t = "object"
          /\ hits # {} )
        => response = Returns(cleanHtmlAndFormatText(At(paths[Min(hits)]).s))

\* C15 happens: a body with output and response was formatted into the
\* cleaned output, which is not the cleaned response
C15_Witness ==
    /\ stage = "formatted"
    /\ document.kind = "json"
    /\ document.v.t = "object"
    /\ IsString(Prop(document.v, Key.output))
    /\ IsString(Prop(document.v, Key.response))
    /\ document.v.members[1].k = Key.response
    /\ response.text = cleanHtmlAndFormatText(Prop(document.v, Key.output).s)
    /\ response.text # cleanHtmlAndFormatText(Prop(document.v, Key.response).s)

\* C16: for a body that JSON.parse rejects and that holds a property output
\* with a string that is not empty, the text is the cleaned value of that
\* property, escaped quotes and newlines in it read as what they stand for.
C16_OutputRecovered ==
    ( /\ stage \in {"formatted", "answered"}
      /\ document.kind \in {"truncated", "comma"}
      /\ document.v.t = "object"
      /\ IsString(Prop(document.v, Key.output))
      /\ Prop(document.v, Key.output).s # <<>> )
    => response = Returns(cleanHtmlAndFormatText(Prop(document.v, Key.output).s))

\* C17: formatting a second time changes nothing: for a body that is not
\* empty and is not JSON, the text returned for the returned text is that
\* text again.
\* Texts that come back empty are left out, the second call would answer
\* them with the fixed message.
C17_Idempotent ==
    ( /\ stage = "answeredTwice"
      /\ document.kind = "text"
      /\ textData # <<>>
      /\ ~Parses(textData)
      /\ response.text # <<>> )
    => again = response

\* C18: every text returned by the formatter has no HTML tag, no span between
\* Markdown emphasis markers, no Markdown link, no white space at its ends
\* and no run of three newlines.
C18_FormattedText ==
    (stage \in {"formatted", "answered"} /\ ~response.threw) =>
        /\ MatchStarts(response.text, "<[^>]*>") = {}
        /\ \A mark \in {"**", "*", "__", "_"} : MatchStarts(response.text, mark) = {}
        /\ MatchStarts(response.text, "[]()") = {}
        /\ Trim(response.text) = response.text
        /\ MatchStarts(response.text, "\\n{3,}") = {}

\* C19: a processed text without a period, an exclamation mark or a question
\* mark is split into exactly one chunk, the trimmed text itself.
C19_NoPunctuationOneChunk ==
    ( /\ stage = "chunked"
      /\ \A i \in 1..Len(processedText) : ~IsTerminal(processedText[i]) )
    => speechChunks = <<Trim(processedText)>>

\* C19 happens: a text of several characters, none of them terminal, was
\* split into the one chunk that is the text
C19_Witness ==
    /\ stage = "chunked"
    /\ Len(processedText) > 1
    /\ \A i \in 1..Len(processedText) : ~IsTerminal(processedText[i])
    /\ speechChunks = <<processedText>>

\* C20: the chunks that speak makes of a text that is not blank are not
\* empty: every utterance it queues has some text.
C20_NoEmptyUtterance ==
    (stage = "chunked" /\ ~IsBlank(spokenText)) =>
        \A i \in 1..Len(speechChunks) : speechChunks[i] # <<>>

\* C22: while the settle timer of a speak() call is pending, the cancellation
\* flag that the call has set is still up.
C22_FlagHeldUntilSettle ==
    (\E i \in 1..Len(timers) : timers[i].kind = "settle") => isCancellingRef

\* C23: once a cancel() has passed its guard, no step hands an utterance to
\* the device as long as no speak() call has started a session since.
C23_NoPlaybackAfterCancel ==
    ~( /\ last.handed
       /\ mounted = "mounted"
       /\ nSessions > 0
       /\ hist.cancelled = 1..nSessions )

\* C24: once the cleanup of the effect has run, no step hands an utterance to
\* the device.
C24_NoPlaybackAfterCleanup ==
    ~(last.handed /\ mounted = "unmounted")

\* C25: the cursor is an index into the queue or the queue's length.
C25_CursorInBounds ==
    /\ 0 <= currentUtteranceIndexRef
    /\ currentUtteranceIndexRef <= Len(utteranceQueueRef)

\* C21: the step in which handleSendMessage finishes a send whose answer had
\* a status outside 2xx, or whose fetch failed, leaves a message in error and
\* isProcessing false, adds no message to a conversation, leaves every
\* message of that send a user message, and calls nothing of the hook, speak
\* included.
C21_TransportFailureSurfaced ==
    [][ (inFlight' # inFlight /\ appLast'.status \in {"3xx", "4xx", "5xx", "network"})
        => /\ state'.error # Null
           /\ state'.isProcessing = FALSE
           /\ state'.conversations = state.conversations
           /\ \A i \in 1..Len(state'.conversations) :
                  \A j \in 1..Len(state'.conversations[i].messages) :
                      state'.conversations[i].messages[j].send = appLast'.send
                          => state'.conversations[i].messages[j].isUser
           /\ UNCHANGED hookVars ]_vars

\* C21 happens: a send was answered with a 4xx status while speech was
\* ready; its user message is in the conversation and the error is shown
C21_Witness ==
    /\ appLast.op = "failed"
    /\ appLast.status = "4xx"
    /\ state.error = ErrorMessage("4xx")
    /\ ~state.isProcessing
    /\ isSupported /\ voicesLoadedRef /\ selectedVoiceRef
    /\ \E i \in 1..Len(state.conversations) :
           \E j \in 1..Len(state.conversations[i].messages) :
               state.conversations[i].messages[j] = Message(appLast.send, <<"h">>, TRUE)

\* C26: when a send that no other send overlaps gets its reply, the current
\* conversation ends with the user's message and the agent's reply of that
\* send, isProcessing is false, and localStorage holds the list of
\* conversations of the state.
C26_SendAppendsBoth ==
    ( /\ appLast.op = "replied"
      /\ nSends = 1
      /\ inFlight = {} )
    => /\ Len(currentConversation.messages) >= 2
       /\ LET n == Len(currentConversation.messages)
          IN  /\ currentConversation.messages[n - 1].send = 1
              /\ currentConversation.messages[n - 1].isUser
              /\ currentConversation.messages[n].send = 1
              /\ ~currentConversation.messages[n].isUser
       /\ ~state.isProcessing
       /\ localStorage = Stored(state.conversations, state.currentConversationId)

\* C27: in every state of App, currentConversationId is the id of exactly one
\* conversation of the list.
C27_CurrentIdInList ==
    Cardinality({i \in 1..Len(state.conversations) :
                    state.conversations[i].id = state.currentConversationId}) = 1

\* C28: when the reply of the second of two sends is stored in a conversation
\* that already holds the agent's reply of the other send, the conversation
\* afterwards holds both user messages and both agent replies.
C28_NoMessageLost ==
    [][ \A s \in inFlight :
          ( /\ inFlight' = {}
            /\ nSends = 2
            /\ appLast'.op = "replied"
            /\ appLast'.send = s.send
            /\ \E i \in 1..Len(state.conversations) :
                  /\ state.conversations[i].id = s.updatedConversation.id
                  /\ \E j \in 1..Len(state.conversations[i].messages) :
                        /\ state.conversations[i].messages[j].send = 3 - s.send
                        /\ ~state.conversations[i].messages[j].isUser )
          => \E i \in 1..Len(state'.conversations) :
                /\ state'.conversations[i].id = s.updatedConversation.id
                /\ \A n \in 1..2, isUser \in BOOLEAN :
                      \E j \in 1..Len(state'.conversations[i].messages) :
                         /\ state'.conversations[i].messages[j].send = n
                         /\ state'.conversations[i].messages[j].isUser = isUser
      ]_vars

=============================================================================
